---- MODULE Spec2Model ----
(***************************************************************************)
(* State-machine model of monitor_deloitte_jobs.py: the main loop over the *)
(* configured searches, the location filter applier, the link extractor,   *)
(* the normaliser, the diff engine and the on-disk state store.            *)
(*                                                                         *)
(* Text the program inspects character by character (hrefs, link texts,    *)
(* titles, location names) is a sequence of one-character strings; text    *)
(* the program only passes around or concatenates (keys, labels, paths) is *)
(* a plain string.                                                         *)
(***************************************************************************)
EXTENDS Integers, Sequences, FiniteSets, TLC

\* ------------------------------------------------------------------ bounds

\* Invocations of the script in one behaviour.
MaxRuns == 3
\* Link elements on a rendered page.
MaxAnchors == 1
\* Entries of a location list in the configuration-table specification,
\* and the invocations of one behaviour of it.
MaxLocs == 1
MaxTableRuns == 1
\* Link elements behind each job list diff_jobs is tried on by itself.
MaxDiffAnchors == 2
\* Link elements behind each candidate list deduplication is tried on by
\* itself.
MaxDedupeAnchors == 3
\* Characters of a title and of a URL normalize_job is tried on by itself.
MaxTitleChars == 4
MaxUrlChars == 2
\* Entries of the location list the filter applier is tried on by itself.
MaxFilterLocs == 2

\* ------------------------------------------------------ program constants

BASE_SEARCH_URL == "https://apply.deloitte.co.uk/UKCareers/SearchJobs/?161=%5B219%2C222%5D&161_format=273&3884=%5B330998%5D&3884_format=3018&listFilterMode=1&jobRecordsPerPage=20&"

STATE_DIR == ".state"

REPORT_FILE == STATE_DIR \o "/" \o "last_run_report.json"

Edinburgh == <<"E", "d", "i", "n", "b", "u", "r", "g", "h">>

Glasgow == <<"G", "l", "a", "s", "g", "o", "w">>

\* The dict SEARCHES; SearchOrder is its insertion order, which
\* SEARCHES.items() follows.
SEARCHES ==
    [k \in {"edinburgh-only", "glasgow-only"} |->
        IF k = "edinburgh-only"
        THEN [label |-> "Deloitte jobs: Edinburgh only", locations |-> <<Edinburgh>>]
        ELSE [label |-> "Deloitte jobs: Glasgow only", locations |-> <<Glasgow>>]]

SearchOrder == <<"edinburgh-only", "glasgow-only">>

\* The origin that relative hrefs are resolved against.
ORIGIN ==
    <<"h", "t", "t", "p", "s", ":", "/", "/", "a", "p", "p", "l", "y", ".",
      "d", "e", "l", "o", "i", "t", "t", "e", ".", "c", "o", ".", "u", "k">>

\* The substrings that make a resolved URL look like a job posting.
JobPatterns ==
    << <<"j", "o", "b">>,
       <<"v", "a", "c", "a", "n", "c", "y">>,
       <<"j", "o", "b", "i", "d">>,
       <<"r", "e", "q", "u", "i", "s", "i", "t", "i", "o", "n">>,
       <<"p", "o", "s", "t", "i", "n", "g">>,
       <<"c", "a", "r", "e", "e", "r", "s", "/", "j", "o", "b">>,
       <<"u", "k", "c", "a", "r", "e", "e", "r", "s", "/", "j", "o", "b">> >>

MinTitleLen == 6

MaxTitleLen == 160

\* Locators tried to open the location control, to clear, and to apply.
NumOpenLocators == 4

NumClearLocators == 3

NumApplyLocators == 4

\* Strategies tried to select one location.
NumSelectStrategies == 3

\* ---------------------------------------------------------------- strings

\* Characters in code-point order (the order Python compares strings by).
CodePoints ==
    <<"\t", "\n", " ", "-", ".", "/", "0", "1", "2", "3", "4", "5", "6", "7",
      "8", "9", ":", "A", "B", "C", "D", "E", "F", "G", "H", "I", "J", "K",
      "L", "M", "N", "O", "P", "Q", "R", "S", "T", "U", "V", "W", "X", "Y",
      "Z", "_", "a", "b", "c", "d", "e", "f", "g", "h", "i", "j", "k", "l",
      "m", "n", "o", "p", "q", "r", "s", "t", "u", "v", "w", "x", "y", "z">>

Ord(c) == CHOOSE i \in 1..Len(CodePoints) : CodePoints[i] = c

UpperCase == 18..43

\* str.lower() on one character, then on a string.
LowerChar(c) ==
    IF Ord(c) \in UpperCase THEN CodePoints[Ord(c) + 27] ELSE c

Lower(s) == [i \in 1..Len(s) |-> LowerChar(s[i])]

\* The characters \s matches and str.strip() removes.
Whitespace == {" ", "\t", "\n"}

RECURSIVE LStrip(_)
LStrip(s) ==
    IF s # <<>> /\ Head(s) \in Whitespace THEN LStrip(Tail(s)) ELSE s

RECURSIVE RStrip(_)
RStrip(s) ==
    IF s # <<>> /\ s[Len(s)] \in Whitespace
    THEN RStrip(SubSeq(s, 1, Len(s) - 1))
    ELSE s

\* str.strip()
Strip(s) == RStrip(LStrip(s))

\* re.sub(r"\s+", " ", s): every maximal run of whitespace becomes one space.
RECURSIVE CollapseWhitespace(_)
CollapseWhitespace(s) ==
    IF s = <<>> THEN <<>>
    ELSE IF Head(s) \in Whitespace
         THEN <<" ">> \o CollapseWhitespace(LStrip(s))
         ELSE <<Head(s)>> \o CollapseWhitespace(Tail(s))

\* str.startswith(p)
StartsWith(s, p) == Len(p) <= Len(s) /\ SubSeq(s, 1, Len(p)) = p

\* p in s
Contains(s, p) ==
    \E i \in 1..(Len(s) - Len(p) + 1) : SubSeq(s, i, i + Len(p) - 1) = p

\* str.lstrip("/")
RECURSIVE LStripSlash(_)
LStripSlash(s) ==
    IF s # <<>> /\ Head(s) = "/" THEN LStripSlash(Tail(s)) ELSE s

\* s < t in Python's string order.
RECURSIVE StrLess(_, _)
StrLess(s, t) ==
    IF t = <<>> THEN FALSE
    ELSE IF s = <<>> THEN TRUE
    ELSE IF Head(s) = Head(t) THEN StrLess(Tail(s), Tail(t))
    ELSE Ord(Head(s)) < Ord(Head(t))

\* ------------------------------------------------- normaliser, diff engine

\* dict.get(k, default)
Get(d, k, default) == IF k \in DOMAIN d THEN d[k] ELSE default

\* normalize_job stripping neither end of the title.
normalize_job_untrimmed(job) ==
    [title |-> CollapseWhitespace(Get(job, "title", <<>>)),
     url |-> Strip(Get(job, "url", <<>>))]

\* job.get(k) or "" reads a missing key as the empty string.
normalize_job(job) ==
    [title |-> CollapseWhitespace(Strip(Get(job, "title", <<>>))),
     url |-> Strip(Get(job, "url", <<>>))]

\* UrlSet reading the title where it should read the URL.
UrlSetOfTitles(jobs) == {jobs[i].title : i \in {n \in 1..Len(jobs) : jobs[n].title # <<>>}}

\* {j.get("url") for j in jobs if j.get("url")}
UrlSet(jobs) == {jobs[i].url : i \in {n \in 1..Len(jobs) : jobs[n].url # <<>>}}

IsNewJob(old_urls, j) == j.url # <<>> /\ j.url \notin old_urls

\* diff_jobs comparing whole jobs where it should compare URLs.
diff_jobs_by_job(old_jobs, new_jobs) ==
    LET old == {old_jobs[i] : i \in 1..Len(old_jobs)}
        keep(j) == j.url # <<>> /\ j \notin old
    IN SelectSeq(new_jobs, keep)

diff_jobs(old_jobs, new_jobs) ==
    LET old_urls == UrlSet(old_jobs)
        keep(j) == IsNewJob(old_urls, j)
    IN SelectSeq(new_jobs, keep)

\* --------------------------------------------------------------- extractor

\* An href is made absolute against the site's origin.
ResolveHref(href) ==
    IF StartsWith(href, <<"/">>) THEN ORIGIN \o href
    ELSE IF StartsWith(href, <<"h", "t", "t", "p">>) THEN href
    ELSE ORIGIN \o <<"/">> \o LStripSlash(href)

looks_like_job(href_abs) ==
    \E i \in 1..Len(JobPatterns) : Contains(Lower(href_abs), JobPatterns[i])

\* The loop over the anchors: the candidate jobs, in DOM order.
RECURSIVE CandidateJobs(_)
CandidateJobs(anchors) ==
    IF anchors = <<>> THEN <<>>
    ELSE LET a == Head(anchors)
             href == a.href
             text == Strip(a.text)
             href_abs == ResolveHref(href)
         IN IF href # <<>> /\ looks_like_job(href_abs)
               /\ MinTitleLen <= Len(text) /\ Len(text) <= MaxTitleLen
            THEN <<[title |-> text, url |-> href_abs]>> \o CandidateJobs(Tail(anchors))
            ELSE CandidateJobs(Tail(anchors))

\* Deduplicate by URL, first occurrence kept, empty URLs dropped.
RECURSIVE UniqueJobs(_, _)
UniqueJobs(jobs, seen) ==
    IF jobs = <<>> THEN <<>>
    ELSE LET jn == normalize_job(Head(jobs))
         IN IF jn.url = <<>> \/ jn.url \in seen
            THEN UniqueJobs(Tail(jobs), seen)
            ELSE <<jn>> \o UniqueJobs(Tail(jobs), seen \cup {jn.url})

\* list.sort(key=url): a stable sort, ascending by URL.
RECURSIVE InsertByUrl(_, _)
InsertByUrl(sorted, j) ==
    IF sorted = <<>> THEN <<j>>
    ELSE IF StrLess(j.url, Head(sorted).url)
         THEN <<j>> \o sorted
         ELSE <<Head(sorted)>> \o InsertByUrl(Tail(sorted), j)

RECURSIVE SortByUrl(_)
SortByUrl(jobs) ==
    IF jobs = <<>> THEN <<>>
    ELSE InsertByUrl(SortByUrl(SubSeq(jobs, 1, Len(jobs) - 1)), jobs[Len(jobs)])

\* Deduplicate leaving the jobs in the order of their first occurrence.
DeduplicateUnsorted(candidates) == UniqueJobs(candidates, {})

\* The deduplication step: unique by URL, then sorted by URL.
Deduplicate(candidates) == SortByUrl(UniqueJobs(candidates, {}))

\* What extract_jobs_with_playwright returns for the anchors of a page.
unique_jobs(anchors) == Deduplicate(CandidateJobs(anchors))

\* ------------------------------------------------------------- state store

\* Python's None.
None == [py |-> "None"]

\* A JSON document is its value tree; an object keeps its members in order.
JsonNull == [t |-> "null"]

JsonString(s) == [t |-> "string", v |-> s]

JsonNumber(n) == [t |-> "number", v |-> n]

JsonArray(items) == [t |-> "array", v |-> items]

JsonObject(members) == [t |-> "object", v |-> members]

DumpJob(j) ==
    JsonObject(<< <<"title", JsonString(j.title)>>, <<"url", JsonString(j.url)>> >>)

DumpJobs(jobs) == JsonArray([i \in 1..Len(jobs) |-> DumpJob(jobs[i])])

\* json.loads
RECURSIVE json_loads(_)
json_loads(doc) ==
    CASE doc.t = "null" -> None
      [] doc.t = "string" -> doc.v
      [] doc.t = "number" -> doc.v
      [] doc.t = "array" -> [i \in 1..Len(doc.v) |-> json_loads(doc.v[i])]
      [] doc.t = "object" ->
            LET m == doc.v
                last(n) == CHOOSE i \in 1..Len(m) :
                              m[i][1] = n /\ \A j \in (i + 1)..Len(m) : m[j][1] # n
            IN [n \in {m[i][1] : i \in 1..Len(m)} |-> json_loads(m[last(n)][2])]

\* _state_file_for leaving the key out of the file name.
state_file_without_key(key) == STATE_DIR \o "/" \o "deloitte_jobs_" \o ".json"

_state_file_for(key) == STATE_DIR \o "/" \o "deloitte_jobs_" \o key \o ".json"

\* The document save_current writes for key at time now.
StatePayload(key, jobs, now) ==
    JsonObject(<< <<"search_key", JsonString(key)>>,
                  <<"source_url", JsonString(BASE_SEARCH_URL)>>,
                  <<"last_checked_utc", JsonString(now)>>,
                  <<"jobs", DumpJobs(jobs)>> >>)

\* Python's list of the jobs of a JSON array written by DumpJobs.
StoredJobs(doc) ==
    LET arr == (CHOOSE m \in {doc.v[i] : i \in 1..Len(doc.v)} : m[1] = "jobs")[2].v
    IN [i \in 1..Len(arr) |-> [title |-> arr[i].v[1][2].v, url |-> arr[i].v[2][2].v]]

\* save_current writing the jobs to the state file of every key.
save_current_for_every_key(files, key, jobs, now) ==
    LET paths == {_state_file_for(k) : k \in DOMAIN SEARCHES}
    IN [p \in DOMAIN files \cup paths |->
          IF p \in paths THEN StatePayload(key, jobs, now) ELSE files[p]]

\* save_current merging the jobs into those already stored.
save_current_merging(files, key, jobs, now) ==
    LET path == _state_file_for(key)
        old == IF path \in DOMAIN files THEN StoredJobs(files[path]) ELSE <<>>
        kept(j) == j.url \notin {jobs[i].url : i \in 1..Len(jobs)}
    IN [p \in DOMAIN files \cup {path} |->
          IF p = path THEN StatePayload(key, jobs \o SelectSeq(old, kept), now)
          ELSE files[p]]

\* save_current, as the file system it leaves.
save_current(files, key, jobs, now) ==
    [p \in DOMAIN files \cup {_state_file_for(key)} |->
        IF p = _state_file_for(key) THEN StatePayload(key, jobs, now) ELSE files[p]]

\* load_previous stamping the record it makes up when there is no file.
load_previous_stamped(files, key) ==
    IF _state_file_for(key) \notin DOMAIN files
    THEN [jobs |-> <<>>, last_checked_utc |-> [iso |-> 0],
          source_url |-> BASE_SEARCH_URL, search_key |-> key]
    ELSE json_loads(files[_state_file_for(key)])

load_previous(files, key) ==
    IF _state_file_for(key) \notin DOMAIN files
    THEN [jobs |-> <<>>, last_checked_utc |-> None,
          source_url |-> BASE_SEARCH_URL, search_key |-> key]
    ELSE json_loads(files[_state_file_for(key)])

\* The document save_report writes.
ReportPayload(results, table, now) ==
    JsonObject(<< <<"run_utc", JsonString(now)>>,
                  <<"base_url", JsonString(BASE_SEARCH_URL)>>,
                  <<"results", JsonArray([i \in 1..Len(results) |->
                        LET r == results[i]
                            locs == table[r.key].locations
                        IN JsonObject(<<
                             <<"key", JsonString(r.key)>>,
                             <<"label", JsonString(r.label)>>,
                             <<"locations", JsonArray([n \in 1..Len(locs) |-> JsonString(locs[n])])>>,
                             <<"page_title", JsonString(r.page_title)>>,
                             <<"jobs_found", JsonNumber(Len(r.jobs))>>,
                             <<"new_jobs_found", JsonNumber(Len(r.new_jobs))>>,
                             <<"new_jobs", DumpJobs(r.new_jobs)>> >>)])>> >>)

save_report(files, results, table, now) ==
    [p \in DOMAIN files \cup {REPORT_FILE} |->
        IF p = REPORT_FILE THEN ReportPayload(results, table, now) ELSE files[p]]

\* _try_click_first giving up after its first locator.
click_first_locator_only(outcomes) ==
    IF outcomes # <<>> /\ outcomes[1] = "clicked" THEN 1 ELSE 0

\* _try_click_first: the position of the first locator that is there and
\* becomes visible and clickable, 0 when none does.  outcomes[i] is what
\* locator i does when tried: "absent" (count() is 0), "error" (the wait or
\* the click raises) or "clicked".
_try_click_first(outcomes) ==
    IF \E i \in 1..Len(outcomes) : outcomes[i] = "clicked"
    THEN CHOOSE i \in 1..Len(outcomes) :
            outcomes[i] = "clicked" /\ \A j \in 1..(i - 1) : outcomes[j] # "clicked"
    ELSE 0

LocatorOutcomes == {"absent", "error", "clicked"}

\* What a chain of n locators can return, over everything the page can do.
ClickResults(n) == {_try_click_first(outcomes) : outcomes \in [1..n -> LocatorOutcomes]}

\* The loop of _try_click_first: the outcomes of the locators it gets to, in
\* order; it returns at the first one it clicks.
RECURSIVE LocatorsTried(_)
LocatorsTried(outcomes) ==
    IF outcomes = <<>> THEN <<>>
    ELSE IF Head(outcomes) = "clicked" THEN <<"clicked">>
    ELSE <<Head(outcomes)>> \o LocatorsTried(Tail(outcomes))

\* Step 1's chain, over everything the page can do: what it clicked and what
\* it tried.
OpenChains ==
    {[clicked |-> _try_click_first(outcomes), tried |-> LocatorsTried(outcomes)] :
        outcomes \in [1..NumOpenLocators -> LocatorOutcomes]}

ClearResults == ClickResults(NumClearLocators)

ApplyResults == ClickResults(NumApplyLocators)

\* FirstStrategy with no fallback after the first strategy.
OnlyFirstStrategy(works) == IF works # <<>> /\ works[1] THEN 1 ELSE 0

\* The first selection strategy that works for one location, 0 when none
\* does.  works[i] is whether strategy i goes through when it is tried.
FirstStrategy(works) ==
    IF \E i \in 1..Len(works) : works[i]
    THEN CHOOSE i \in 1..Len(works) : works[i] /\ \A j \in 1..(i - 1) : ~works[j]
    ELSE 0

\* The try blocks of step 3 for one location: whether each strategy that is
\* run went through, in order; a strategy is run only while selected is False.
RECURSIVE StrategiesTried(_)
StrategiesTried(works) ==
    IF works = <<>> THEN <<>>
    ELSE IF Head(works) THEN <<TRUE>>
    ELSE <<FALSE>> \o StrategiesTried(Tail(works))

\* Step 3 for one location, over everything the page can do: the strategy
\* that selected it and what was tried.
SelectChains ==
    {[by |-> FirstStrategy(works), tried |-> StrategiesTried(works)] :
        works \in [1..NumSelectStrategies -> BOOLEAN]}

\* ------------------------------------------------------------------ inputs

\* Link elements a rendered page may hold (href attribute, inner text).
RawAnchors ==
    { [href |-> <<"/", "j", "o", "b", "/", "1">>,
       text |-> <<" ", "N", "e", "w", " ", " ", "R", "o", "l", "e", " ">>],
      [href |-> <<"/", "j", "o", "b", "/", "1">>,
       text |-> <<"L", "e", "a", "d", " ", "R", "o", "l", "e">>],
      [href |-> <<"j", "o", "b", "/", "2">>,
       text |-> <<"A", "n", "a", "l", "y", "s", "t">>],
      [href |-> <<"/", "a", "b", "o", "u", "t">>,
       text |-> <<"A", "b", "o", "u", "t", " ", "u", "s">>],
      [href |-> <<"/", "j", "o", "b", "/", "3">>,
       text |-> <<"A", "p", "p", "l", "y">>],
      [href |-> <<>>,
       text |-> <<"A", "n", "a", "l", "y", "s", "t">>],
      [href |-> ORIGIN \o <<"/", "J", "O", "B", "/", "9">>,
       text |-> <<"P", "a", "r", "t", "n", "e", "r">>] }

AnchorLists(Anchors, n) == UNION {[1..m -> Anchors] : m \in 0..n}

\* The anchors of a page of the monitored site, in DOM order: its links are
\* the relative ones.
SiteAnchors == {a \in RawAnchors : ~StartsWith(a.href, <<"h", "t", "t", "p">>)}

Pages == AnchorLists(SiteAnchors, MaxAnchors)

PageTitles == {"Search Jobs"}

\* Location names a configuration table may hold: a name, and a blank entry.
LocationNames == {Edinburgh, <<" ">>}

LocationLists == UNION {[1..n -> LocationNames] : n \in 0..MaxLocs}

\* The location lists the filter applier is tried on by itself.
FilterLocationLists ==
    UNION {[1..n -> LocationNames \cup {Glasgow}] : n \in 0..MaxFilterLocs}

\* What extraction can return: the extraction of every page.
ExtractedJobs == {unique_jobs(anchors) : anchors \in Pages}

\* The job lists diff_jobs is tried on: the extraction of every list of up
\* to MaxDiffAnchors anchors.
DiffInputs == {unique_jobs(anchors) : anchors \in AnchorLists(RawAnchors, MaxDiffAnchors)}

\* The anchors deduplication is tried on: those above, and one whose href
\* ends in a space.
DedupeAnchors ==
    RawAnchors \cup
    { [href |-> <<"/", "j", "o", "b", "/", "1", " ">>,
       text |-> <<"O", "l", "d", " ", "R", "o", "l", "e">>] }

\* The candidate lists deduplication is tried on: the candidates of every
\* list of up to MaxDedupeAnchors anchors.
DedupeInputs ==
    {CandidateJobs(anchors) : anchors \in AnchorLists(DedupeAnchors, MaxDedupeAnchors)}

TitleChars == {"a", " ", "\t", "\n"}

UrlChars == {"u", " "}

Strings(chars, n) == UNION {[1..m -> chars] : m \in 0..n}

\* The jobs normalize_job is tried on: a title and a URL, either of which
\* may be missing.
NormalizeInputs ==
    LET titles == Strings(TitleChars, MaxTitleChars)
        urls == Strings(UrlChars, MaxUrlChars)
    IN {[title |-> t, url |-> u] : t \in titles, u \in urls}
       \cup {[title |-> t] : t \in titles}
       \cup {[url |-> u] : u \in urls}

\* ------------------------------------------------------------------- state

VARIABLES
    searches,       \* the configuration table (SEARCHES)
    fs,             \* the files under STATE_DIR: path -> document
    github_output,  \* the lines appended to $GITHUB_OUTPUT by this invocation
    pc,             \* where main stands
    idx,            \* position in SearchOrder of the search being processed
    prev,           \* main's prev (None while unset)
    prev_jobs,
    page,           \* what the filter applier has done on the open page
    loc_i,          \* position of the selection loop in the location list
    current_jobs,
    page_title,
    new_jobs,
    all_results,
    total_new,
    error,          \* the exception that ended the invocation, or NoError
    run,            \* invocations started so far; the time _now_utc_iso reads
    processed,      \* history: keys whose processing began in this invocation
    entry_state,    \* history: the key's state file when its processing began
    last_saved,     \* history: key -> jobs of its latest save_current
    seen_urls,      \* history: key -> URLs of all its save_currents so far
    jobs_filter,    \* history: locations selected on the page extracted from
    raw_jobs,       \* the extractor's list of candidates (jobs), not yet deduplicated
    tried           \* history: what the latest of steps 1 and 3 tried, in order

vars ==
    <<searches, fs, github_output, pc, idx, prev, prev_jobs, page, loc_i,
      current_jobs, page_title, new_jobs, all_results, total_new, error, run,
      processed, entry_state, last_saved, seen_urls, jobs_filter, raw_jobs, tried>>

NoError == [type |-> "none"]

NavigationTimeout == [type |-> "TimeoutError", msg |-> "page.goto"]

FilterControlNotFound ==
    [type |-> "RuntimeError",
     msg |-> "Could not find/open the Location filter control. The UI may have changed."]

\* The errors of the filter applier's variants that treat as fatal what the
\* applier lets pass.
ControlNotClicked(step) == [type |-> "RuntimeError", msg |-> "Could not click", step |-> step]

LocationNotConfirmed == [type |-> "RuntimeError", msg |-> "Could not confirm locations"]

LocationNotSelectable(loc) ==
    [type |-> "RuntimeError", msg |-> "Could not select location", loc |-> loc]

\* A freshly loaded page: opened, cleared and applied are what the locator
\* chains of steps 1, 2 and 4 returned, selected the locations ticked so far,
\* confirmed the positions of the locations step 5 found visible.
NoPage ==
    [opened |-> FALSE, cleared |-> FALSE, selected |-> <<>>, applied |-> FALSE,
     confirmed |-> {}]

\* Nothing tried: no strict step has acted on the page since it was loaded,
\* or a best-effort step acted last.
NoAttempts == [step |-> "none", loc |-> <<>>, outcomes |-> <<>>]

\* The log of attempts is kept by the specifications of one search; those of
\* whole invocations start with it off, and it stays off.
NotLogged == [step |-> "off", loc |-> <<>>, outcomes |-> <<>>]

\* The log after a step that leaves entry in it.
Logged(entry) == IF tried = NotLogged THEN NotLogged ELSE entry

NeverSaved == [saved |-> FALSE]

Absent == [exists |-> FALSE]

\* The state file of key as it is on disk.
FileOf(files, key) ==
    IF _state_file_for(key) \in DOMAIN files
    THEN [exists |-> TRUE, doc |-> files[_state_file_for(key)]]
    ELSE Absent

\* _now_utc_iso: time is read at the grain of one invocation.
_now_utc_iso == [iso |-> run]

Keys == {SearchOrder[i] : i \in 1..Len(SearchOrder)}

key == SearchOrder[idx]

locations == searches[key].locations

\* The values main's locals have before they are first assigned.  The loop
\* assigns each of them again before reading it, so the end of a pass and the
\* end of the process put them back to these values.
LocalsUnset ==
    /\ prev' = None
    /\ prev_jobs' = <<>>
    /\ page' = NoPage
    /\ loc_i' = 1
    /\ current_jobs' = <<>>
    /\ page_title' = ""
    /\ new_jobs' = <<>>
    /\ jobs_filter' = {}

InitCommon ==
    /\ fs = <<>>
    /\ github_output = <<>>
    /\ pc = "start"
    /\ idx = 1
    /\ prev = None
    /\ prev_jobs = <<>>
    /\ page = NoPage
    /\ loc_i = 1
    /\ current_jobs = <<>>
    /\ page_title = ""
    /\ new_jobs = <<>>
    /\ all_results = <<>>
    /\ total_new = 0
    /\ error = NoError
    /\ run = 0
    /\ processed = {}
    /\ entry_state = Absent
    /\ last_saved = [k \in Keys |-> NeverSaved]
    /\ seen_urls = [k \in Keys |-> {}]
    /\ jobs_filter = {}
    /\ raw_jobs = <<>>
    /\ tried = NotLogged

\* The script as configured, before its first invocation, with no state
\* directory yet.
Init == InitCommon /\ searches = SEARCHES

\* The same, for any configuration table over the same keys.
InitAnyTable ==
    /\ InitCommon
    /\ searches \in [Keys -> {[label |-> SEARCHES[k].label, locations |-> l] :
                                 k \in Keys, l \in LocationLists}]
    /\ \A k \in Keys : searches[k].label = SEARCHES[k].label

\* main stands before its call of diff_jobs, with any two extracted job lists
\* as the previous and the current one.
InitDiff ==
    /\ searches = SEARCHES
    /\ fs = <<>>
    /\ github_output = <<>>
    /\ pc = "diff"
    /\ idx = 1
    /\ prev = None
    /\ prev_jobs \in DiffInputs
    /\ page = NoPage
    /\ loc_i = 1
    /\ current_jobs \in DiffInputs
    /\ page_title = ""
    /\ new_jobs = <<>>
    /\ all_results = <<>>
    /\ total_new = 0
    /\ error = NoError
    /\ run = 1
    /\ processed = {}
    /\ entry_state = Absent
    /\ last_saved = [k \in Keys |-> NeverSaved]
    /\ seen_urls = [k \in Keys |-> {}]
    /\ jobs_filter = {}
    /\ raw_jobs = <<>>
    /\ tried = NoAttempts

\* apply_location_filters_strict is about to be called, with any location
\* list, on the page loaded for the first search of a first invocation.
InitFilter ==
    /\ searches \in {[SEARCHES EXCEPT ![SearchOrder[1]].locations = l] :
                        l \in FilterLocationLists}
    /\ fs = <<>>
    /\ github_output = <<>>
    /\ pc = "filter_open"
    /\ idx = 1
    /\ prev = load_previous(<<>>, SearchOrder[1])
    /\ prev_jobs = <<>>
    /\ page = NoPage
    /\ loc_i = 1
    /\ current_jobs = <<>>
    /\ page_title = ""
    /\ new_jobs = <<>>
    /\ all_results = <<>>
    /\ total_new = 0
    /\ error = NoError
    /\ run = 1
    /\ processed = {SearchOrder[1]}
    /\ entry_state = Absent
    /\ last_saved = [k \in Keys |-> NeverSaved]
    /\ seen_urls = [k \in Keys |-> {}]
    /\ jobs_filter = {}
    /\ raw_jobs = <<>>
    /\ tried = NoAttempts

\* The extractor stands before its deduplication loop, with the candidates
\* of any anchors.
InitDedupe ==
    /\ pc = "dedupe"
    /\ raw_jobs \in DedupeInputs
    /\ searches = SEARCHES
    /\ fs = <<>>
    /\ github_output = <<>>
    /\ idx = 1
    /\ prev = None
    /\ prev_jobs = <<>>
    /\ page = NoPage
    /\ loc_i = 1
    /\ current_jobs = <<>>
    /\ page_title = ""
    /\ new_jobs = <<>>
    /\ all_results = <<>>
    /\ total_new = 0
    /\ error = NoError
    /\ run = 1
    /\ processed = {}
    /\ entry_state = Absent
    /\ last_saved = [k \in Keys |-> NeverSaved]
    /\ seen_urls = [k \in Keys |-> {}]
    /\ jobs_filter = {}
    /\ tried = NoAttempts

\* normalize_job is about to be called on any one job.
InitNormalize ==
    /\ pc = "normalize"
    /\ raw_jobs \in {<<j>> : j \in NormalizeInputs}
    /\ searches = SEARCHES
    /\ fs = <<>>
    /\ github_output = <<>>
    /\ idx = 1
    /\ prev = None
    /\ prev_jobs = <<>>
    /\ page = NoPage
    /\ loc_i = 1
    /\ current_jobs = <<>>
    /\ page_title = ""
    /\ new_jobs = <<>>
    /\ all_results = <<>>
    /\ total_new = 0
    /\ error = NoError
    /\ run = 1
    /\ processed = {}
    /\ entry_state = Absent
    /\ last_saved = [k \in Keys |-> NeverSaved]
    /\ seen_urls = [k \in Keys |-> {}]
    /\ jobs_filter = {}
    /\ tried = NoAttempts

\* Raise with main catching the exception to store an empty job list.
RaiseStoringNoJobs(e) ==
    /\ pc' = "exit"
    /\ error' = e
    /\ all_results' = <<>>
    /\ total_new' = 0
    /\ LocalsUnset
    /\ fs' = save_current(fs, key, <<>>, _now_utc_iso)
    /\ UNCHANGED <<searches, raw_jobs, github_output, idx, run, processed,
                   entry_state, last_saved, seen_urls>>

\* An uncaught exception leaves main: the interpreter exits.  (The step
\* that raises says what it had tried.)
Raise(e) ==
    /\ pc' = "exit"
    /\ error' = e
    /\ all_results' = <<>>
    /\ total_new' = 0
    /\ LocalsUnset
    /\ UNCHANGED <<searches, raw_jobs, fs, github_output, idx, run, processed,
                   entry_state, last_saved, seen_urls>>

\* ----------------------------------------------------------------- actions

\* The script is invoked: main starts with empty results.
StartMain(limit) ==
    /\ pc \in {"start", "exit"}
    /\ run < limit
    /\ run' = run + 1
    /\ pc' = "load"
    /\ idx' = 1
    /\ error' = NoError
    /\ all_results' = <<>>
    /\ total_new' = 0
    /\ github_output' = <<>>
    /\ processed' = {}
    /\ entry_state' = Absent
    /\ LocalsUnset
    /\ tried' = Logged(NoAttempts)
    /\ UNCHANGED <<searches, raw_jobs, fs, last_saved, seen_urls>>

\* prev = load_previous(key); prev_jobs = prev.get("jobs", [])
LoadPrevious ==
    /\ pc = "load"
    /\ prev' = load_previous(fs, key)
    /\ prev_jobs' = Get(load_previous(fs, key), "jobs", <<>>)
    /\ processed' = processed \cup {key}
    /\ entry_state' = FileOf(fs, key)
    /\ pc' = "goto"
    /\ UNCHANGED <<searches, raw_jobs, tried, fs, github_output, idx, page, loc_i,
                   current_jobs, page_title, new_jobs, all_results, total_new,
                   error, run, last_saved, seen_urls, jobs_filter>>

\* page.goto(base_url, ...): the page loads, or the navigation times out.
PageGoto ==
    /\ pc = "goto"
    /\ \/ /\ pc' = "filter_open"
          /\ page' = NoPage
          /\ UNCHANGED <<searches, raw_jobs, tried, fs, github_output, idx, prev, prev_jobs,
                         loc_i, current_jobs, page_title, new_jobs, all_results,
                         total_new, error, run, processed, entry_state,
                         last_saved, seen_urls, jobs_filter>>
       \/ Raise(NavigationTimeout) /\ UNCHANGED tried

\* Step 1 of apply_location_filters_strict: open the Location filter panel.
FilterOpen ==
    /\ pc = "filter_open"
    /\ \E chain \in OpenChains :
         LET opened == chain.clicked # 0
         IN /\ tried' = Logged([step |-> "open", loc |-> <<>>, outcomes |-> chain.tried])
            /\ IF ~opened
               THEN Raise(FilterControlNotFound)
               ELSE /\ page' = [page EXCEPT !.opened = opened]
                    /\ pc' = "filter_clear"
                    /\ UNCHANGED <<searches, raw_jobs, fs, github_output, idx, prev,
                                   prev_jobs, loc_i, current_jobs, page_title,
                                   new_jobs, all_results, total_new, error, run,
                                   processed, entry_state, last_saved, seen_urls,
                                   jobs_filter>>

\* FilterClear raising when it found nothing to click.
FilterClearOrRaise ==
    /\ pc = "filter_clear"
    /\ tried' = Logged(NoAttempts)
    /\ \E clicked \in ClearResults :
         IF clicked = 0
         THEN Raise(ControlNotClicked("clear"))
         ELSE /\ page' = [page EXCEPT !.cleared = TRUE]
              /\ loc_i' = 1
              /\ pc' = IF locations = <<>> THEN "filter_apply" ELSE "filter_select"
              /\ UNCHANGED <<searches, raw_jobs, fs, github_output, idx, prev,
                             prev_jobs, current_jobs, page_title, new_jobs,
                             all_results, total_new, error, run, processed,
                             entry_state, last_saved, seen_urls, jobs_filter>>

\* Step 2: clear existing selections, best effort.
FilterClear ==
    /\ pc = "filter_clear"
    /\ \E clicked \in ClearResults :
         page' = [page EXCEPT !.cleared = clicked # 0]
    /\ loc_i' = 1
    /\ pc' = IF locations = <<>> THEN "filter_apply" ELSE "filter_select"
    /\ tried' = Logged(NoAttempts)
    /\ UNCHANGED <<searches, raw_jobs, fs, github_output, idx, prev, prev_jobs,
                   current_jobs, page_title, new_jobs, all_results, total_new,
                   error, run, processed, entry_state, last_saved, seen_urls,
                   jobs_filter>>

\* FilterSelect trying its strategies on a blank location as on any other.
FilterSelectTryingBlank ==
    /\ pc = "filter_select"
    /\ LET loc == Strip(locations[loc_i])
       IN \E chain \in SelectChains :
            /\ tried' = Logged([step |-> "select", loc |-> loc, outcomes |-> chain.tried])
            /\ IF chain.by = 0
               THEN Raise(LocationNotSelectable(loc))
               ELSE /\ page' = [page EXCEPT !.selected = Append(@, loc)]
                    /\ loc_i' = loc_i + 1
                    /\ pc' = IF loc_i = Len(locations) THEN "filter_apply"
                             ELSE "filter_select"
                    /\ UNCHANGED <<searches, raw_jobs, fs, github_output, idx, prev,
                                   prev_jobs, current_jobs, page_title, new_jobs,
                                   all_results, total_new, error, run, processed,
                                   entry_state, last_saved, seen_urls,
                                   jobs_filter>>

\* FilterSelect going on to the next location when no strategy worked.
FilterSelectGoingOn ==
    /\ pc = "filter_select"
    /\ \E chain \in SelectChains :
         /\ page' = IF chain.by = 0 \/ Strip(locations[loc_i]) = <<>>
                    THEN page
                    ELSE [page EXCEPT !.selected = Append(@, Strip(locations[loc_i]))]
         /\ tried' = Logged([step |-> "select", loc |-> Strip(locations[loc_i]),
                             outcomes |-> IF Strip(locations[loc_i]) = <<>> THEN <<>>
                                          ELSE chain.tried])
    /\ loc_i' = loc_i + 1
    /\ pc' = IF loc_i = Len(locations) THEN "filter_apply" ELSE "filter_select"
    /\ UNCHANGED <<searches, raw_jobs, fs, github_output, idx, prev, prev_jobs,
                   current_jobs, page_title, new_jobs, all_results, total_new,
                   error, run, processed, entry_state, last_saved, seen_urls,
                   jobs_filter>>

\* Step 3, one pass of the loop over the locations.
FilterSelect ==
    /\ pc = "filter_select"
    /\ LET loc == Strip(locations[loc_i])
           next_pc == IF loc_i = Len(locations) THEN "filter_apply" ELSE "filter_select"
           go_on == /\ loc_i' = loc_i + 1
                    /\ pc' = next_pc
                    /\ UNCHANGED <<searches, raw_jobs, fs, github_output, idx, prev,
                                   prev_jobs, current_jobs, page_title, new_jobs,
                                   all_results, total_new, error, run, processed,
                                   entry_state, last_saved, seen_urls,
                                   jobs_filter>>
       IN IF loc = <<>>
          THEN /\ page' = page
               /\ tried' = Logged([step |-> "select", loc |-> loc, outcomes |-> <<>>])
               /\ go_on
          ELSE \E chain \in SelectChains :
                 LET selected == chain.by # 0
                 IN /\ tried' = Logged([step |-> "select", loc |-> loc,
                                        outcomes |-> chain.tried])
                    /\ IF ~selected
                       THEN Raise(LocationNotSelectable(loc))
                       ELSE /\ page' = [page EXCEPT !.selected = Append(@, loc)]
                            /\ go_on

\* Step 4: apply, when the page has a control for it; then the page settles.
FilterApply ==
    /\ pc = "filter_apply"
    /\ \E clicked \in ApplyResults :
         page' = [page EXCEPT !.applied = clicked # 0]
    /\ pc' = "filter_verify"
    /\ tried' = Logged(NoAttempts)
    /\ UNCHANGED <<searches, raw_jobs, fs, github_output, idx, prev, prev_jobs,
                   loc_i, current_jobs, page_title, new_jobs, all_results,
                   total_new, error, run, processed, entry_state, last_saved,
                   seen_urls, jobs_filter>>

\* FilterVerify raising when a location is not visible on the page.
FilterVerifyOrRaise ==
    /\ pc = "filter_verify"
    /\ \E visible \in SUBSET (1..Len(locations)) :
         IF visible # 1..Len(locations)
         THEN Raise(LocationNotConfirmed) /\ UNCHANGED tried
         ELSE /\ page' = [page EXCEPT !.confirmed = visible]
              /\ pc' = "extract"
              /\ UNCHANGED <<searches, raw_jobs, tried, fs, github_output, idx,
                             prev, prev_jobs, loc_i, current_jobs, page_title,
                             new_jobs, all_results, total_new, error, run,
                             processed, entry_state, last_saved, seen_urls,
                             jobs_filter>>

\* Step 5: each location is looked for on the page; not finding it is
\* swallowed.  The filter applier returns.
FilterVerify ==
    /\ pc = "filter_verify"
    /\ \E visible \in SUBSET (1..Len(locations)) :
         page' = [page EXCEPT !.confirmed = visible]
    /\ pc' = "extract"
    /\ UNCHANGED <<searches, raw_jobs, tried, fs, github_output, idx, prev, prev_jobs,
                   loc_i, current_jobs, page_title, new_jobs, all_results,
                   total_new, error, run, processed, entry_state, last_saved,
                   seen_urls, jobs_filter>>

\* jn = normalize_job(j), for the jobs of the list.
NormalizeJob ==
    /\ pc = "normalize"
    /\ current_jobs' = [i \in 1..Len(raw_jobs) |-> normalize_job(raw_jobs[i])]
    /\ pc' = "normalized"
    /\ UNCHANGED <<searches, raw_jobs, tried, fs, github_output, idx, prev,
                   prev_jobs, page, loc_i, page_title, new_jobs, all_results,
                   total_new, error, run, processed, entry_state, last_saved,
                   seen_urls, jobs_filter>>

\* The deduplication loop and the sort, on the candidate list.
Dedupe ==
    /\ pc = "dedupe"
    /\ current_jobs' = Deduplicate(raw_jobs)
    /\ pc' = "deduped"
    /\ UNCHANGED <<searches, raw_jobs, tried, fs, github_output, idx, prev,
                   prev_jobs, page, loc_i, page_title, new_jobs, all_results,
                   total_new, error, run, processed, entry_state, last_saved,
                   seen_urls, jobs_filter>>

\* The rest of extract_jobs_with_playwright: the anchors are read, the jobs
\* deduplicated and sorted, the browser closed.
ExtractJobs ==
    /\ pc = "extract"
    /\ \E unique \in ExtractedJobs : current_jobs' = unique
    /\ \E title \in PageTitles : page_title' = title
    /\ jobs_filter' = {page.selected[i] : i \in 1..Len(page.selected)}
    /\ page' = NoPage
    /\ pc' = "diff"
    /\ UNCHANGED <<searches, raw_jobs, tried, fs, github_output, idx, prev, prev_jobs,
                   loc_i, new_jobs, all_results, total_new, error, run,
                   processed, entry_state, last_saved, seen_urls>>

\* DiffJobs comparing with the record as save_current will have written it.
DiffJobsAgainstSaved ==
    /\ pc = "diff"
    /\ new_jobs' =
          diff_jobs(load_previous(save_current(fs, key, current_jobs, _now_utc_iso), key).jobs,
                    current_jobs)
    /\ pc' = "save"
    /\ UNCHANGED <<searches, raw_jobs, tried, fs, github_output, idx, prev, prev_jobs,
                   page, loc_i, current_jobs, page_title, all_results,
                   total_new, error, run, processed, entry_state, last_saved,
                   seen_urls, jobs_filter>>

\* new_jobs = diff_jobs(prev_jobs, current_jobs)
DiffJobs ==
    /\ pc = "diff"
    /\ new_jobs' = diff_jobs(prev_jobs, current_jobs)
    /\ pc' = "save"
    /\ UNCHANGED <<searches, raw_jobs, tried, fs, github_output, idx, prev, prev_jobs,
                   page, loc_i, current_jobs, page_title, all_results,
                   total_new, error, run, processed, entry_state, last_saved,
                   seen_urls, jobs_filter>>

\* SaveCurrent leaving the state file alone when nothing was extracted.
SaveCurrentUnlessEmpty ==
    /\ pc = "save"
    /\ fs' = IF current_jobs = <<>> THEN fs
             ELSE save_current(fs, key, current_jobs, _now_utc_iso)
    /\ last_saved' = [last_saved EXCEPT ![key] = [saved |-> TRUE, jobs |-> current_jobs]]
    /\ seen_urls' = [seen_urls EXCEPT ![key] = @ \cup UrlSet(current_jobs)]
    /\ pc' = "append"
    /\ UNCHANGED <<searches, raw_jobs, tried, github_output, idx, prev, prev_jobs, page, loc_i,
                   current_jobs, page_title, new_jobs, all_results, total_new,
                   error, run, processed, entry_state, jobs_filter>>

\* save_current(key, current_jobs)
SaveCurrent ==
    /\ pc = "save"
    /\ fs' = save_current(fs, key, current_jobs, _now_utc_iso)
    /\ last_saved' = [last_saved EXCEPT ![key] = [saved |-> TRUE, jobs |-> current_jobs]]
    /\ seen_urls' = [seen_urls EXCEPT ![key] = @ \cup UrlSet(current_jobs)]
    /\ pc' = "append"
    /\ UNCHANGED <<searches, raw_jobs, tried, github_output, idx, prev, prev_jobs, page, loc_i,
                   current_jobs, page_title, new_jobs, all_results, total_new,
                   error, run, processed, entry_state, jobs_filter>>

\* total_new += len(new_jobs); all_results.append(...); the loop moves on.
AppendResult ==
    /\ pc = "append"
    /\ total_new' = total_new + Len(new_jobs)
    /\ all_results' = Append(all_results,
            [key |-> key, label |-> searches[key].label, url |-> BASE_SEARCH_URL,
             jobs |-> current_jobs, new_jobs |-> new_jobs,
             page_title |-> page_title])
    /\ idx' = idx + 1
    /\ pc' = IF idx < Len(SearchOrder) THEN "load" ELSE "report"
    /\ LocalsUnset
    /\ UNCHANGED <<searches, raw_jobs, tried, fs, github_output, error, run, processed,
                   entry_state, last_saved, seen_urls>>

\* save_report(all_results)
SaveReport ==
    /\ pc = "report"
    /\ fs' = save_report(fs, all_results, searches, _now_utc_iso)
    /\ pc' = "output"
    /\ UNCHANGED <<searches, raw_jobs, tried, github_output, idx, prev, prev_jobs, page, loc_i,
                   current_jobs, page_title, new_jobs, all_results, total_new,
                   error, run, processed, entry_state, last_saved, seen_urls,
                   jobs_filter>>

\* write_github_output(total_new > 0, total_new), then main returns.
WriteGithubOutput ==
    /\ pc = "output"
    /\ \E out_path_set \in BOOLEAN :
         github_output' =
            IF out_path_set
            THEN <<[name |-> "changed", value |-> total_new > 0],
                   [name |-> "new_count", value |-> total_new]>>
            ELSE github_output
    /\ pc' = "exit"
    /\ all_results' = <<>>
    /\ total_new' = 0
    /\ UNCHANGED <<searches, raw_jobs, tried, fs, idx, prev, prev_jobs, page, loc_i,
                   current_jobs, page_title, new_jobs, error, run, processed,
                   entry_state, last_saved, seen_urls, jobs_filter>>

\* Every step of main but its start.
MainStep ==
    \/ LoadPrevious
    \/ PageGoto
    \/ FilterOpen
    \/ FilterClear
    \/ FilterSelect
    \/ FilterApply
    \/ FilterVerify
    \/ ExtractJobs
    \/ DiffJobs
    \/ SaveCurrent
    \/ AppendResult
    \/ SaveReport
    \/ WriteGithubOutput

Next == StartMain(MaxRuns) \/ MainStep

Spec == Init /\ [][Next]_vars

NextAnyTable == StartMain(MaxTableRuns) \/ MainStep

SpecAnyTable == InitAnyTable /\ [][NextAnyTable]_vars

\* diff_jobs by itself.
SpecDiff == InitDiff /\ [][DiffJobs]_vars

\* apply_location_filters_strict by itself.
NextFilter ==
    \/ FilterOpen
    \/ FilterClear
    \/ FilterSelect
    \/ FilterApply
    \/ FilterVerify

SpecFilter == InitFilter /\ [][NextFilter]_vars

\* One pass of main's loop from the filter applier on.
NextSearch ==
    \/ NextFilter
    \/ ExtractJobs
    \/ DiffJobs
    \/ SaveCurrent
    \/ AppendResult

SpecSearch == InitFilter /\ [][NextSearch]_vars

\* The deduplication step by itself.
SpecDedupe == InitDedupe /\ [][Dedupe]_vars

\* normalize_job by itself.
SpecNormalize == InitNormalize /\ [][NormalizeJob]_vars

\* ------------------------------------------------------------------ claims

Urls(list) == {list[i].url : i \in 1..Len(list)}

Elements(list) == {list[i] : i \in 1..Len(list)}

Failed == pc = "exit" /\ error # NoError

FilterFailed == Failed /\ error.type = "RuntimeError"

StateFiles == {_state_file_for(k) : k \in Keys}

\* The requested locations that are not blank, trimmed.
Requested == {Strip(locations[i]) : i \in 1..Len(locations)} \ {<<>>}

\* C1: when a search fails fatally, every search after it in the configured
\* order is still processed in that invocation.
C1_LaterSearchesStillRun ==
    Failed => \A i \in (idx + 1)..Len(SearchOrder) : SearchOrder[i] \in processed

\* C2: when a search fails fatally, the state file of its key is as it was
\* when the processing of that search began: nothing was saved for it.
C2_FailedSearchKeepsState == Failed => FileOf(fs, key) = entry_state

C2_Witness ==
    /\ Failed
    /\ error = FilterControlNotFound
    /\ entry_state.exists
    /\ StoredJobs(entry_state.doc) # <<>>

\* C3: every invocation that has ended has written the run report of that
\* invocation, also when a search failed.
C3_ReportAlwaysWritten ==
    pc = "exit" =>
        /\ REPORT_FILE \in DOMAIN fs
        /\ json_loads(fs[REPORT_FILE]).run_utc = _now_utc_iso

\* C4: when the filter applier has failed fatally, a diagnostic bundle has
\* been written: a file that is neither a state file nor the run report.
C4_DiagnosticsCaptured ==
    FilterFailed => \E p \in DOMAIN fs : p \notin StateFiles \cup {REPORT_FILE}

C6_DiffIsSubtractionByUrl ==
    pc = "save" =>
        /\ \A n \in 1..Len(new_jobs) : new_jobs[n].url \notin Urls(prev_jobs)
        /\ \A i \in 1..Len(current_jobs) :
              current_jobs[i].url \notin Urls(prev_jobs) =>
                 Cardinality({n \in 1..Len(new_jobs) : new_jobs[n] = current_jobs[i]}) = 1
        /\ \A i \in 1..Len(current_jobs) :
              (\E p \in 1..Len(prev_jobs) :
                  /\ prev_jobs[p].url = current_jobs[i].url
                  /\ prev_jobs[p].title # current_jobs[i].title)
              => current_jobs[i] \notin Elements(new_jobs)

C6_Witness ==
    /\ pc = "save"
    /\ Len(new_jobs) = 1
    /\ Len(current_jobs) = 2
    /\ \E i \in 1..Len(current_jobs), p \in 1..Len(prev_jobs) :
          /\ prev_jobs[p].url = current_jobs[i].url
          /\ prev_jobs[p].title # current_jobs[i].title

\* C7: diff_jobs of a job list against itself is empty, and a successful run
\* that extracts the job list the latest successful run of the same key
\* extracted reports no new job.
C7_NoNewJobsOnIdenticalRun ==
    /\ diff_jobs(current_jobs, current_jobs) = <<>>
    /\ (pc = "save" /\ last_saved[key].saved /\ last_saved[key].jobs = current_jobs)
          => new_jobs = <<>>

C7_Witness ==
    /\ pc = "save"
    /\ last_saved[key].saved
    /\ last_saved[key].jobs = current_jobs
    /\ current_jobs # <<>>
    /\ new_jobs = <<>>

\* C8: after save_current the stored job list of the key is exactly the
\* current extraction, and a job whose URL was not in the latest list saved
\* for the key is reported as new, also when an earlier run had saved it.
C8_SaveReplacesTheRecord ==
    /\ pc = "append" =>
          /\ _state_file_for(key) \in DOMAIN fs
          /\ StoredJobs(fs[_state_file_for(key)]) = current_jobs
    /\ (pc = "save" /\ last_saved[key].saved) =>
          \A i \in 1..Len(current_jobs) :
              current_jobs[i].url \notin Urls(last_saved[key].jobs)
                 => current_jobs[i] \in Elements(new_jobs)
    /\ \A k \in Keys :
          last_saved[k].saved =>
              /\ _state_file_for(k) \in DOMAIN fs
              /\ Urls(StoredJobs(fs[_state_file_for(k)])) = Urls(last_saved[k].jobs)

C8_Witness ==
    /\ pc = "save"
    /\ last_saved[key].saved
    /\ \E i \in 1..Len(current_jobs) :
          /\ current_jobs[i].url \in seen_urls[key]
          /\ current_jobs[i].url \notin Urls(last_saved[key].jobs)
          /\ current_jobs[i] \in Elements(new_jobs)

\* C9: load_previous after save_current returns a record with the jobs that
\* were saved and the key they were saved under, whatever the file held
\* before and whatever was saved for other keys since.
C9_LoadReturnsWhatWasSaved ==
    /\ (pc = "goto" /\ last_saved[key].saved) =>
          /\ prev.jobs = last_saved[key].jobs
          /\ prev.search_key = key
          /\ prev_jobs = last_saved[key].jobs
    /\ pc = "append" =>
          /\ load_previous(fs, key).jobs = current_jobs
          /\ load_previous(fs, key).search_key = key

C9_Witness ==
    /\ pc = "goto"
    /\ run = 3
    /\ last_saved[key].saved
    /\ prev.jobs = last_saved[key].jobs
    /\ prev.jobs # <<>>
    /\ prev.last_checked_utc = [iso |-> 2]
    /\ \E k \in Keys \ {key} : last_saved[k].saved /\ last_saved[k].jobs # prev.jobs

\* C10: for a key that was never saved, load_previous returns a record with
\* no jobs and a null last-checked timestamp, and no error; the first
\* save_current of the key creates its file.
C10_FirstLoadIsEmpty ==
    /\ \A k \in Keys : ~last_saved[k].saved =>
          /\ load_previous(fs, k).jobs = <<>>
          /\ load_previous(fs, k).last_checked_utc = None
          /\ load_previous(fs, k).search_key = k
    /\ (pc = "goto" /\ ~last_saved[key].saved) =>
          /\ prev.jobs = <<>>
          /\ prev.last_checked_utc = None
          /\ prev_jobs = <<>>
          /\ error = NoError
    /\ (pc = "append" /\ ~entry_state.exists) =>
          /\ _state_file_for(key) \in DOMAIN fs
          /\ json_loads(fs[_state_file_for(key)]).search_key = key

C10_Witness ==
    /\ pc = "append"
    /\ ~entry_state.exists
    /\ prev.last_checked_utc = None
    /\ _state_file_for(key) \in DOMAIN fs
    /\ current_jobs # <<>>
    /\ new_jobs = current_jobs

\* C11: a search whose extraction yields no job is not an error: it reaches
\* the end of its pass with no current and no new job, its state file is
\* written with an empty job list in place of whatever was stored, and the
\* result appended for it counts no job.
C11_EmptyExtractionIsSaved ==
    /\ (pc \in {"diff", "save", "append"} /\ current_jobs = <<>>) => error = NoError
    /\ (pc \in {"save", "append"} /\ current_jobs = <<>>) => new_jobs = <<>>
    /\ (pc = "append" /\ current_jobs = <<>>) =>
          /\ _state_file_for(key) \in DOMAIN fs
          /\ StoredJobs(fs[_state_file_for(key)]) = <<>>
          /\ load_previous(fs, key).jobs = <<>>
          /\ load_previous(fs, key).last_checked_utc = _now_utc_iso
    /\ \A i \in 1..Len(all_results) :
          all_results[i].jobs = <<>> =>
              /\ all_results[i].new_jobs = <<>>
              /\ StoredJobs(fs[_state_file_for(all_results[i].key)]) = <<>>

C11_Witness ==
    /\ pc = "report"
    /\ error = NoError
    /\ all_results[1].jobs = <<>>
    /\ seen_urls["edinburgh-only"] # {}
    /\ StoredJobs(fs[_state_file_for("edinburgh-only")]) = <<>>

\* The URL the deduplication step compares jobs by: the trimmed one.
TrimmedUrl(j) == Strip(Get(j, "url", <<>>))

Orderings(n) ==
    {f \in [1..n -> 1..n] : \A i, j \in 1..n : i # j => f[i] # f[j]}

\* C12: the deduplicated list has no two entries with the same URL and no
\* entry with an empty URL; it holds, for every non-empty URL of the
\* candidates, the normalised first candidate with that URL and nothing else;
\* it is in ascending order of URL; and when the candidates have pairwise
\* different URLs, every permutation of them deduplicates to the same list.
C12_DedupeUniqueFirstSorted ==
    pc = "deduped" =>
        /\ \A i, j \in 1..Len(current_jobs) :
              i # j => current_jobs[i].url # current_jobs[j].url
        /\ \A i \in 1..Len(current_jobs) : current_jobs[i].url # <<>>
        /\ \A i \in 1..Len(raw_jobs) :
              TrimmedUrl(raw_jobs[i]) # <<>> =>
                 TrimmedUrl(raw_jobs[i]) \in Urls(current_jobs)
        /\ \A n \in 1..Len(current_jobs) :
              \E i \in 1..Len(raw_jobs) :
                 /\ normalize_job(raw_jobs[i]) = current_jobs[n]
                 /\ \A h \in 1..(i - 1) : TrimmedUrl(raw_jobs[h]) # current_jobs[n].url
        /\ \A i, j \in 1..Len(current_jobs) :
              i < j => StrLess(current_jobs[i].url, current_jobs[j].url)
        /\ (\A i, j \in 1..Len(raw_jobs) : i # j => TrimmedUrl(raw_jobs[i]) # TrimmedUrl(raw_jobs[j]))
              => \A f \in Orderings(Len(raw_jobs)) :
                    Deduplicate([i \in 1..Len(raw_jobs) |-> raw_jobs[f[i]]]) = current_jobs

C12_Witness ==
    /\ pc = "deduped"
    /\ Len(raw_jobs) = 3
    /\ Len(current_jobs) = 2
    /\ TrimmedUrl(raw_jobs[1]) = TrimmedUrl(raw_jobs[3])
    /\ raw_jobs[1].url # raw_jobs[3].url
    /\ StrLess(TrimmedUrl(raw_jobs[2]), TrimmedUrl(raw_jobs[1]))
    /\ current_jobs[1] = normalize_job(raw_jobs[2])
    /\ current_jobs[2] = normalize_job(raw_jobs[1])

\* C13: normalising a normalised job changes nothing; a normalised title
\* neither begins nor ends with whitespace and has no two whitespace
\* characters in a row; a normalised URL neither begins nor ends with
\* whitespace.
C13_NormalizeIsIdempotent ==
    pc = "normalized" =>
        \A i \in 1..Len(current_jobs) :
            LET jn == current_jobs[i]
            IN /\ normalize_job(jn) = jn
               /\ DOMAIN jn = {"title", "url"}
               /\ jn.title # <<>> =>
                     /\ jn.title[1] \notin Whitespace
                     /\ jn.title[Len(jn.title)] \notin Whitespace
               /\ \A k \in 1..(Len(jn.title) - 1) :
                     ~(jn.title[k] \in Whitespace /\ jn.title[k + 1] \in Whitespace)
               /\ jn.url # <<>> =>
                     /\ jn.url[1] \notin Whitespace
                     /\ jn.url[Len(jn.url)] \notin Whitespace

C13_Witness ==
    /\ pc = "normalized"
    /\ raw_jobs[1] = [title |-> <<"a", "\t", "\n", "a">>, url |-> <<" ", "u">>]
    /\ current_jobs[1] = [title |-> <<"a", " ", "a">>, url |-> <<"u">>]

\* The last entry of a non-empty sequence.
Last(seq) == seq[Len(seq)]

\* C14: for a location that is not blank the selection strategies are tried
\* in their order, each only when all before it failed, and none after the
\* first that goes through, which selects the location; when all fail, the
\* applier raises LocationNotSelectable for that location, and nothing
\* further is done on the page: no other location, no apply step.
C14_SelectionStrategiesInOrder ==
    [][/\ Failed => UNCHANGED vars
       /\ (pc = "filter_select" /\ Strip(locations[loc_i]) # <<>>) =>
             LET loc == Strip(locations[loc_i])
                 o == tried'.outcomes
             IN /\ tried'.step = "select"
                /\ tried'.loc = loc
                /\ Len(o) \in 1..NumSelectStrategies
                /\ \A k \in 1..(Len(o) - 1) : o[k] = FALSE
                /\ Last(o) = TRUE =>
                      /\ error' = NoError
                      /\ page'.selected = Append(page.selected, loc)
                      /\ loc_i' = loc_i + 1
                /\ Last(o) = FALSE =>
                      /\ Len(o) = NumSelectStrategies
                      /\ error' = LocationNotSelectable(loc)
                      /\ pc' = "exit"
                      /\ ~page.applied]_vars

C14_Witness ==
    /\ Failed
    /\ Len(locations) = 2
    /\ locations[1] = Glasgow
    /\ locations[2] = Edinburgh
    /\ error = LocationNotSelectable(Glasgow)
    /\ tried = [step |-> "select", loc |-> Glasgow, outcomes |-> <<FALSE, FALSE, FALSE>>]

\* C15: step 1 tries its locators in their order, passing over one that is
\* absent and one whose wait or click raises, and stops at the first it
\* clicks, which opens the control; it raises FilterControlNotFound only when
\* all of them failed, no other error comes out of it, and nothing was done
\* on the page before nor is done after.
C15_OpenLocatorsInOrder ==
    [][/\ (error = NoError /\ error' = FilterControlNotFound) => pc = "filter_open"
       /\ (pc = "exit" /\ error = FilterControlNotFound) => UNCHANGED vars
       /\ pc = "filter_open" =>
             LET o == tried'.outcomes
             IN /\ page = NoPage
                /\ tried'.step = "open"
                /\ Len(o) \in 1..NumOpenLocators
                /\ \A k \in 1..(Len(o) - 1) : o[k] \in {"absent", "error"}
                /\ Last(o) = "clicked" =>
                      /\ error' = NoError
                      /\ page' = [NoPage EXCEPT !.opened = TRUE]
                      /\ pc' = "filter_clear"
                /\ Last(o) # "clicked" =>
                      /\ Len(o) = NumOpenLocators
                      /\ error' = FilterControlNotFound
                      /\ pc' = "exit"
                      /\ page' = NoPage]_vars

C15_Witness ==
    /\ pc = "exit"
    /\ error = FilterControlNotFound
    /\ tried = [step |-> "open", loc |-> <<>>,
                outcomes |-> <<"error", "absent", "absent", "error">>]

\* The locations step 5 did not find on the page.
Unconfirmed == (1..Len(locations)) \ page.confirmed

Running ==
    pc \in {"load", "goto", "filter_open", "filter_clear", "filter_select",
            "filter_apply", "filter_verify", "extract", "diff", "save", "append"}

\* C18: while the search at idx is processed, every search before it has
\* been processed to its end in this invocation (its result appended, its
\* record written by this invocation and holding its own jobs still), no
\* search after it has begun nor had its record written by this invocation,
\* and what the search has read is the record of its own key.
C18_SearchesSequentialAndIndependent ==
    Running =>
        /\ Len(all_results) = idx - 1
        /\ processed = {SearchOrder[j] : j \in 1..(IF pc = "load" THEN idx - 1 ELSE idx)}
        /\ \A j \in 1..(idx - 1) :
              LET k == SearchOrder[j]
                  record == load_previous(fs, k)
              IN /\ all_results[j].key = k
                 /\ record.search_key = k
                 /\ record.jobs = all_results[j].jobs
                 /\ record.last_checked_utc = _now_utc_iso
        /\ \A j \in (idx + 1)..Len(SearchOrder) :
              LET k == SearchOrder[j]
                  record == load_previous(fs, k)
              IN /\ record.last_checked_utc # _now_utc_iso
                 /\ last_saved[k].saved =>
                       /\ record.search_key = k
                       /\ record.jobs = last_saved[k].jobs
        /\ pc \notin {"load", "append"} =>
              /\ prev = load_previous(fs, key)
              /\ FileOf(fs, key) = entry_state
              /\ load_previous(fs, key).last_checked_utc # _now_utc_iso

C18_Witness ==
    /\ pc = "append"
    /\ idx = 2
    /\ run = 2
    /\ current_jobs # <<>>
    /\ all_results[1].jobs # <<>>
    /\ all_results[1].jobs # current_jobs
    /\ prev.jobs # <<>>
    /\ prev.jobs # all_results[1].jobs

\* a can be had from b by leaving entries out.
RECURSIVE IsSubList(_, _)
IsSubList(a, b) ==
    IF a = <<>> THEN TRUE
    ELSE IF b = <<>> THEN FALSE
    ELSE IF Head(a) = Head(b) THEN IsSubList(Tail(a), Tail(b))
    ELSE IsSubList(a, Tail(b))

\* The jobs of the record the latest save_current of the key left, none when
\* the key was never saved.
PreviouslySaved(k) == IF last_saved[k].saved THEN last_saved[k].jobs ELSE <<>>

\* C19: the new jobs of a search are the current jobs whose URL is not in
\* the record the latest successful run of the key saved, and when they are
\* computed that record is still on disk as it was when the search began;
\* they are all the current jobs when the key was never saved; and they are
\* a sub-list of the current jobs, in every result appended as well.
C19_DiffBeforeSave ==
    /\ pc = "save" =>
          /\ FileOf(fs, key) = entry_state
          /\ entry_state.exists = last_saved[key].saved
          /\ entry_state.exists => StoredJobs(entry_state.doc) = last_saved[key].jobs
          /\ prev_jobs = PreviouslySaved(key)
          /\ new_jobs = diff_jobs(PreviouslySaved(key), current_jobs)
          /\ \A i \in 1..Len(current_jobs) :
                current_jobs[i] \in Elements(new_jobs)
                   <=> current_jobs[i].url \notin Urls(PreviouslySaved(key))
          /\ ~last_saved[key].saved => new_jobs = current_jobs
    /\ pc = "append" =>
          /\ StoredJobs(fs[_state_file_for(key)]) = current_jobs
          /\ new_jobs = diff_jobs(prev_jobs, current_jobs)
          /\ prev_jobs = IF entry_state.exists THEN StoredJobs(entry_state.doc) ELSE <<>>
    /\ pc \in {"save", "append"} => IsSubList(new_jobs, current_jobs)
    /\ \A i \in 1..Len(all_results) :
          IsSubList(all_results[i].new_jobs, all_results[i].jobs)

C19_Witness ==
    /\ pc = "append"
    /\ entry_state.exists
    /\ StoredJobs(entry_state.doc) # <<>>
    /\ current_jobs # <<>>
    /\ new_jobs = current_jobs
    /\ StoredJobs(fs[_state_file_for(key)]) = current_jobs
    /\ Len(all_results) = 1
    /\ all_results[1].new_jobs = <<>>
    /\ all_results[1].jobs # <<>>

====
